---- MODULE Spec2Model ----
(***************************************************************************)
(* Model of video_downloader.model.Model (src/src/model.py): the download  *)
(* lifecycle state machine, its telemetry and request properties, and the  *)
(* class-level lock set shared by all Model instances.                     *)
(*                                                                         *)
(* Representation.  None is the Python None of _active_download_lock.      *)
(* download_progress, a float in the source, is kept in percent (0.5 is    *)
(* 50).  result[i] records how the last call made on instance i ended:     *)
(* the value it returned, or the exception raised while it ran (an         *)
(* AssertionError raised inside the notify handler of 'state' is reported  *)
(* by the object system and the property keeps its new value).             *)
(***************************************************************************)
EXTENDS Integers, Sequences, FiniteSets, TLC

VARIABLES
    state, prev_state,                      \* 'state' property, _prev_state
    mode, url, resolution, download_folder, \* request properties
    prefer_mpeg, automatic_subtitles,
    error, finished_download_dir, finished_download_filenames,
    download_playlist_index, download_playlist_count,
    download_filename, download_title, download_thumbnail,
    download_progress, download_bytes, download_bytes_total,
    download_speed, download_eta,
    active_lock,                            \* _active_download_lock
    global_lock,                            \* Model._global_download_lock
    engine,                                 \* the Downloader of each instance
    result,                                 \* outcome of the last call
    pc, name                                \* position and argument of a
                                            \* callback running on a thread

lifeVars == <<state, prev_state>>
reqVars  == <<mode, url, resolution, download_folder, prefer_mpeg,
              automatic_subtitles>>
progVars == <<download_filename, download_progress, download_bytes,
              download_bytes_total, download_eta, download_speed>>
startVars == <<download_playlist_index, download_playlist_count,
               download_title>>
teleVars == <<error, finished_download_dir, finished_download_filenames,
              download_thumbnail, progVars, startVars>>
lockVars == <<active_lock, global_lock>>
thrVars  == <<pc, name>>
vars == <<lifeVars, reqVars, teleVars, lockVars, engine, result, thrVars>>

----------------------------------------------------------------------------
(* Bounds and input sets *)

MaxFiles == 2

Instances == {"m1", "m2"}
Single    == {"m1"}

None == "None"
Keys == {"", "k"}
FileNames == {"f", "g"}

\* the values of the request properties: the defaults of lines 39-49 and
\* two requests a user may enter
DefaultRequest ==
    [mode |-> "audio", url |-> "", resolution |-> 1080, download_folder |-> "",
     prefer_mpeg |-> FALSE, automatic_subtitles |-> <<>>]
Requests ==
    { DefaultRequest,
      [mode |-> "video", url |-> "u", resolution |-> 720,
       download_folder |-> "~/dl", prefer_mpeg |-> TRUE,
       automatic_subtitles |-> <<"en">>],
      [mode |-> "audio", url |-> "u", resolution |-> 1080,
       download_folder |-> "", prefer_mpeg |-> FALSE,
       automatic_subtitles |-> <<>>] }

\* the requests entered where only the lifecycle and the locks are followed
LockRequests == { r \in Requests : r.url = "" \/ r.download_folder # "" }

\* arguments of on_progress: filename, progress, bytes_, bytes_total, eta, speed
ProgressInputs == { <<"f", 50, 500, 1000, 10, 50>> }
\* arguments of on_download_start: playlist_index, playlist_count, title
StartInputs == { <<0, 1, "T">>, <<1, 2, "T">> }
Thumbnails == { "thumb" }
Messages == { "failed" }

----------------------------------------------------------------------------
(* Helpers *)

\* Python truth value of _active_download_lock (None and '' are false)
Truthy(x) == x # None /\ x # ""

\* util.expand_path: the absolute path of a folder relative to the home directory
expand_path(p) ==
    IF p = "" THEN "/home"
    ELSE IF SubSeq(p, 1, 1) = "~" THEN "/home" \o SubSeq(p, 2, Len(p))
    ELSE "/home/" \o p

\* mutant: the assertion of line 121 left out
TransitionAllowedNoDownloadAssert(prev, s) ==
    CASE s = "start"               -> prev # "download"
      [] s = "download"            -> TRUE
      [] s = "cancel"              -> prev = "download"
      [] s \in {"success", "error"} -> prev = "download"
      [] OTHER                     -> FALSE

\* mutant: the assertion of line 106 left out
TransitionAllowedNoStartAssert(prev, s) ==
    CASE s = "start"               -> TRUE
      [] s = "download"            -> prev = "start"
      [] s = "cancel"              -> prev = "download"
      [] s \in {"success", "error"} -> prev = "download"
      [] OTHER                     -> FALSE

\* the assertions of _state_transition on the recorded previous state
TransitionAllowed(prev, s) ==
    CASE s = "start"               -> prev # "download"
      [] s = "download"            -> prev = "start"
      [] s = "cancel"              -> prev = "download"
      [] s \in {"success", "error"} -> prev = "download"
      [] OTHER                     -> FALSE

\* mutant: the membership test always finds the key free
LockHeldNever(k) == FALSE

\* line 231: name in self._global_download_lock
LockHeld(k) == k \in global_lock

\* mutant: a cancelled download is routed by the success flag
FinishedStateIgnoreCancel(st, success) ==
    IF success THEN "success" ELSE "error"

\* lines 163-166: the state on_finished sets
FinishedState(st, success) ==
    IF st = "cancel" THEN "start"
    ELSE IF success THEN "success" ELSE "error"

\* Downloader.start / cancel / shutdown: fire-and-forget commands
EngineStart(i)    == engine' = [engine EXCEPT ![i] = "running"]
EngineCancel(i)   ==
    engine' = [engine EXCEPT ![i] = IF @ = "running" THEN "stopping" ELSE @]
EngineShutdown(i) ==
    engine' = [engine EXCEPT ![i] = IF @ = "idle" THEN "idle" ELSE "stopping"]

\* the engine calls back only while it works on a download
Active(i) == engine[i] # "idle" /\ pc[i] = "idle"

Accepting(i) == state[i] \in {"download", "cancel"}

\* mutant: the reset of download_progress (line 113) left out
ResetTelemetryKeepProgress(i) ==
    /\ error' = [error EXCEPT ![i] = ""]
    /\ download_playlist_index' = [download_playlist_index EXCEPT ![i] = 0]
    /\ download_playlist_count' = [download_playlist_count EXCEPT ![i] = 0]
    /\ download_filename' = [download_filename EXCEPT ![i] = ""]
    /\ download_title' = [download_title EXCEPT ![i] = ""]
    /\ download_thumbnail' = [download_thumbnail EXCEPT ![i] = ""]
    /\ UNCHANGED download_progress
    /\ download_bytes' = [download_bytes EXCEPT ![i] = -1]
    /\ download_bytes_total' = [download_bytes_total EXCEPT ![i] = -1]
    /\ download_speed' = [download_speed EXCEPT ![i] = -1]
    /\ download_eta' = [download_eta EXCEPT ![i] = -1]
    /\ finished_download_filenames' =
           [finished_download_filenames EXCEPT ![i] = <<>>]
    /\ finished_download_dir' = [finished_download_dir EXCEPT ![i] = ""]

\* lines 107-119: the telemetry fields written on entering 'start'
ResetTelemetry(i) ==
    /\ error' = [error EXCEPT ![i] = ""]
    /\ download_playlist_index' = [download_playlist_index EXCEPT ![i] = 0]
    /\ download_playlist_count' = [download_playlist_count EXCEPT ![i] = 0]
    /\ download_filename' = [download_filename EXCEPT ![i] = ""]
    /\ download_title' = [download_title EXCEPT ![i] = ""]
    /\ download_thumbnail' = [download_thumbnail EXCEPT ![i] = ""]
    /\ download_progress' = [download_progress EXCEPT ![i] = -1]
    /\ download_bytes' = [download_bytes EXCEPT ![i] = -1]
    /\ download_bytes_total' = [download_bytes_total EXCEPT ![i] = -1]
    /\ download_speed' = [download_speed EXCEPT ![i] = -1]
    /\ download_eta' = [download_eta EXCEPT ![i] = -1]
    /\ finished_download_filenames' =
           [finished_download_filenames EXCEPT ![i] = <<>>]
    /\ finished_download_dir' = [finished_download_dir EXCEPT ![i] = ""]

\* _state_transition(s), the notify handler of 'state': runs with the property
\* already holding s; a failed assertion leaves everything else as it was
StateTransition(i, s) ==
    IF TransitionAllowed(prev_state[i], s)
    THEN /\ prev_state' = [prev_state EXCEPT ![i] = s]
         /\ result' = [result EXCEPT ![i] = "None"]
         /\ CASE s = "start" ->
                   /\ ResetTelemetry(i)
                   /\ UNCHANGED engine
              [] s = "download" ->
                   /\ finished_download_dir' =
                        [finished_download_dir EXCEPT
                           ![i] = expand_path(download_folder[i])]
                   /\ EngineStart(i)
                   /\ UNCHANGED <<error, finished_download_filenames,
                                  download_thumbnail, progVars, startVars>>
              [] s = "cancel" ->
                   /\ EngineCancel(i)
                   /\ UNCHANGED teleVars
              [] OTHER ->
                   UNCHANGED <<teleVars, engine>>
    ELSE /\ result' = [result EXCEPT ![i] = "AssertionError"]
         /\ UNCHANGED <<prev_state, teleVars, engine>>

\* self.state = s / set_property('state', s): the property is written, then
\* the notify handler runs
SetState(i, s) ==
    /\ state' = [state EXCEPT ![i] = s]
    /\ StateTransition(i, s)

\* set.remove of line 225 raises KeyError when the key is not in the set
UnlockRaises(i) ==
    Truthy(active_lock[i]) /\ active_lock[i] \notin global_lock

\* mutant: the key is removed from the set, the instance keeps it (line 226
\* left out)
UnlockKeepActive(i) ==
    IF Truthy(active_lock[i])
    THEN /\ global_lock' = global_lock \ {active_lock[i]}
         /\ UNCHANGED active_lock
    ELSE UNCHANGED lockVars

\* mutant: the instance forgets the key, the set keeps it (line 225 left out)
UnlockKeepKey(i) ==
    IF Truthy(active_lock[i])
    THEN /\ active_lock' = [active_lock EXCEPT ![i] = None]
         /\ UNCHANGED global_lock
    ELSE UNCHANGED lockVars

\* _download_unlock, lines 223-226, when it returns
Unlock(i) ==
    IF Truthy(active_lock[i])
    THEN /\ global_lock' = global_lock \ {active_lock[i]}
         /\ active_lock' = [active_lock EXCEPT ![i] = None]
    ELSE UNCHANGED lockVars

\* a callback left by the KeyError of _download_unlock
KeyError(i) ==
    /\ result' = [result EXCEPT ![i] = "KeyError"]
    /\ UNCHANGED <<lifeVars, reqVars, teleVars, lockVars, thrVars>>

----------------------------------------------------------------------------
(* Initial state: every instance constructed, lines 76-102 *)

Init ==
    /\ state = [i \in Instances |-> "start"]
    /\ prev_state = [i \in Instances |-> "start"]
    /\ mode = [i \in Instances |-> DefaultRequest.mode]
    /\ url = [i \in Instances |-> DefaultRequest.url]
    /\ resolution = [i \in Instances |-> DefaultRequest.resolution]
    /\ download_folder = [i \in Instances |-> DefaultRequest.download_folder]
    /\ prefer_mpeg = [i \in Instances |-> DefaultRequest.prefer_mpeg]
    /\ automatic_subtitles =
           [i \in Instances |-> DefaultRequest.automatic_subtitles]
    /\ error = [i \in Instances |-> ""]
    /\ finished_download_dir = [i \in Instances |-> ""]
    /\ finished_download_filenames = [i \in Instances |-> <<>>]
    /\ download_playlist_index = [i \in Instances |-> 0]
    /\ download_playlist_count = [i \in Instances |-> 0]
    /\ download_filename = [i \in Instances |-> ""]
    /\ download_title = [i \in Instances |-> ""]
    /\ download_thumbnail = [i \in Instances |-> ""]
    /\ download_progress = [i \in Instances |-> -1]
    /\ download_bytes = [i \in Instances |-> -1]
    /\ download_bytes_total = [i \in Instances |-> -1]
    /\ download_speed = [i \in Instances |-> -1]
    /\ download_eta = [i \in Instances |-> -1]
    /\ active_lock = [i \in Instances |-> None]
    /\ global_lock = {}
    /\ engine = [i \in Instances |-> "idle"]
    /\ result = [i \in Instances |-> "None"]
    /\ pc = [i \in Instances |-> "idle"]
    /\ name = [i \in Instances |-> ""]

----------------------------------------------------------------------------
(* User operations *)

\* the user interface writes the request properties
SetRequest(i, r) ==
    /\ pc[i] = "idle"
    /\ mode' = [mode EXCEPT ![i] = r.mode]
    /\ url' = [url EXCEPT ![i] = r.url]
    /\ resolution' = [resolution EXCEPT ![i] = r.resolution]
    /\ download_folder' = [download_folder EXCEPT ![i] = r.download_folder]
    /\ prefer_mpeg' = [prefer_mpeg EXCEPT ![i] = r.prefer_mpeg]
    /\ automatic_subtitles' =
           [automatic_subtitles EXCEPT ![i] = r.automatic_subtitles]
    /\ UNCHANGED <<lifeVars, teleVars, lockVars, engine, result, thrVars>>

\* action 'download' (line 89), enabled while url is non-empty (lines 94-95)
Download(i) ==
    /\ pc[i] = "idle"
    /\ url[i] # ""
    /\ SetState(i, "download")
    /\ UNCHANGED <<reqVars, lockVars, thrVars>>

\* action 'cancel' (line 90), enabled while state is 'download' (lines 98-99)
Cancel(i) ==
    /\ pc[i] = "idle"
    /\ state[i] = "download"
    /\ SetState(i, "cancel")
    /\ UNCHANGED <<reqVars, lockVars, thrVars>>

\* mutant: going back also writes the defaults to the request properties
BackResetsRequest(i) ==
    /\ pc[i] = "idle"
    /\ SetState(i, "start")
    /\ mode' = [mode EXCEPT ![i] = DefaultRequest.mode]
    /\ url' = [url EXCEPT ![i] = DefaultRequest.url]
    /\ resolution' = [resolution EXCEPT ![i] = DefaultRequest.resolution]
    /\ download_folder' =
           [download_folder EXCEPT ![i] = DefaultRequest.download_folder]
    /\ prefer_mpeg' = [prefer_mpeg EXCEPT ![i] = DefaultRequest.prefer_mpeg]
    /\ automatic_subtitles' =
           [automatic_subtitles EXCEPT
              ![i] = DefaultRequest.automatic_subtitles]
    /\ UNCHANGED <<lockVars, thrVars>>

\* action 'back' (line 91), always enabled
Back(i) ==
    /\ pc[i] = "idle"
    /\ SetState(i, "start")
    /\ UNCHANGED <<reqVars, lockVars, thrVars>>

\* shutdown, lines 153-154
Shutdown(i) ==
    /\ pc[i] = "idle"
    /\ EngineShutdown(i)
    /\ result' = [result EXCEPT ![i] = "None"]
    /\ UNCHANGED <<lifeVars, reqVars, teleVars, lockVars, thrVars>>

----------------------------------------------------------------------------
(* Engine callbacks *)

Rejected(i) ==
    /\ result' = [result EXCEPT ![i] = "AssertionError"]
    /\ UNCHANGED <<lifeVars, reqVars, teleVars, lockVars, engine, thrVars>>

\* on_pulse, lines 156-158
OnPulse(i) ==
    /\ Active(i)
    /\ IF Accepting(i)
       THEN /\ result' = [result EXCEPT ![i] = "None"]
            /\ UNCHANGED <<lifeVars, reqVars, teleVars, lockVars, engine,
                           thrVars>>
       ELSE Rejected(i)

\* mutant: on_finished clears the telemetry whatever state it sets
OnFinishedResets(i, success) ==
    /\ Active(i)
    /\ IF ~Accepting(i)
       THEN /\ result' = [result EXCEPT ![i] = "AssertionError"]
            /\ UNCHANGED <<lifeVars, teleVars, lockVars>>
       ELSE IF UnlockRaises(i)
       THEN /\ result' = [result EXCEPT ![i] = "KeyError"]
            /\ UNCHANGED <<lifeVars, teleVars, lockVars>>
       ELSE /\ Unlock(i)
            /\ state' = [state EXCEPT ![i] = FinishedState(state[i], success)]
            /\ LET s == state'[i] IN
               IF TransitionAllowed(prev_state[i], s)
               THEN /\ prev_state' = [prev_state EXCEPT ![i] = s]
                    /\ result' = [result EXCEPT ![i] = "None"]
                    /\ ResetTelemetry(i)
               ELSE /\ result' = [result EXCEPT ![i] = "AssertionError"]
                    /\ UNCHANGED <<prev_state, teleVars>>
    /\ engine' = [engine EXCEPT ![i] = "idle"]
    /\ UNCHANGED <<reqVars, thrVars>>

\* on_finished, lines 160-166: the last callback of a download
OnFinished(i, success) ==
    /\ Active(i)
    /\ IF ~Accepting(i)
       THEN /\ result' = [result EXCEPT ![i] = "AssertionError"]
            /\ UNCHANGED <<lifeVars, teleVars, lockVars>>
       ELSE IF UnlockRaises(i)
       THEN /\ result' = [result EXCEPT ![i] = "KeyError"]
            /\ UNCHANGED <<lifeVars, teleVars, lockVars>>
       ELSE /\ Unlock(i)
            /\ state' = [state EXCEPT ![i] = FinishedState(state[i], success)]
            /\ LET s == state'[i] IN
               IF TransitionAllowed(prev_state[i], s)
               THEN /\ prev_state' = [prev_state EXCEPT ![i] = s]
                    /\ result' = [result EXCEPT ![i] = "None"]
                    /\ IF s = "start" THEN ResetTelemetry(i)
                                      ELSE UNCHANGED teleVars
               ELSE /\ result' = [result EXCEPT ![i] = "AssertionError"]
                    /\ UNCHANGED <<prev_state, teleVars>>
    /\ engine' = [engine EXCEPT ![i] = "idle"]
    /\ UNCHANGED <<reqVars, thrVars>>

\* on_error, lines 204-206
OnError(i, msg) ==
    /\ Active(i)
    /\ IF Accepting(i)
       THEN /\ error' = [error EXCEPT ![i] = msg]
            /\ result' = [result EXCEPT ![i] = "None"]
            /\ UNCHANGED <<lifeVars, reqVars, finished_download_dir,
                           finished_download_filenames, download_thumbnail,
                           progVars, startVars, lockVars, engine, thrVars>>
       ELSE Rejected(i)

\* on_progress, lines 208-215
OnProgress(i, p) ==
    /\ Active(i)
    /\ IF Accepting(i)
       THEN /\ download_filename' = [download_filename EXCEPT ![i] = p[1]]
            /\ download_progress' = [download_progress EXCEPT ![i] = p[2]]
            /\ download_bytes' = [download_bytes EXCEPT ![i] = p[3]]
            /\ download_bytes_total' =
                   [download_bytes_total EXCEPT ![i] = p[4]]
            /\ download_eta' = [download_eta EXCEPT ![i] = p[5]]
            /\ download_speed' = [download_speed EXCEPT ![i] = p[6]]
            /\ result' = [result EXCEPT ![i] = "None"]
            /\ UNCHANGED <<lifeVars, reqVars, error, finished_download_dir,
                           finished_download_filenames, download_thumbnail,
                           startVars, lockVars, engine, thrVars>>
       ELSE Rejected(i)

\* on_download_start, lines 217-221
OnDownloadStart(i, a) ==
    /\ Active(i)
    /\ IF Accepting(i)
       THEN /\ download_playlist_index' =
                   [download_playlist_index EXCEPT ![i] = a[1]]
            /\ download_playlist_count' =
                   [download_playlist_count EXCEPT ![i] = a[2]]
            /\ download_title' = [download_title EXCEPT ![i] = a[3]]
            /\ result' = [result EXCEPT ![i] = "None"]
            /\ UNCHANGED <<lifeVars, reqVars, error, finished_download_dir,
                           finished_download_filenames, download_thumbnail,
                           progVars, lockVars, engine, thrVars>>
       ELSE Rejected(i)

\* mutant: the assertion of line 230 left out
OnDownloadLockNoHeldAssert(i, k) ==
    /\ Active(i)
    /\ IF Accepting(i)
       THEN /\ IF LockHeld(k)
               THEN /\ result' = [result EXCEPT ![i] = "False"]
                    /\ UNCHANGED lockVars
               ELSE /\ global_lock' = global_lock \cup {k}
                    /\ active_lock' = [active_lock EXCEPT ![i] = k]
                    /\ result' = [result EXCEPT ![i] = "True"]
            /\ UNCHANGED <<lifeVars, reqVars, teleVars, engine, thrVars>>
       ELSE Rejected(i)

\* on_download_lock, lines 228-235
OnDownloadLock(i, k) ==
    /\ Active(i)
    /\ IF Accepting(i) /\ active_lock[i] = None
       THEN /\ IF LockHeld(k)
               THEN /\ result' = [result EXCEPT ![i] = "False"]
                    /\ UNCHANGED lockVars
               ELSE /\ global_lock' = global_lock \cup {k}
                    /\ active_lock' = [active_lock EXCEPT ![i] = k]
                    /\ result' = [result EXCEPT ![i] = "True"]
            /\ UNCHANGED <<lifeVars, reqVars, teleVars, engine, thrVars>>
       ELSE Rejected(i)

\* on_download_lock on a thread, lines 229-232: the assertions and the
\* membership test
LockTest(i, k) ==
    /\ Active(i)
    /\ IF Accepting(i) /\ active_lock[i] = None
       THEN /\ IF LockHeld(k)
               THEN /\ result' = [result EXCEPT ![i] = "False"]
                    /\ UNCHANGED thrVars
               ELSE /\ pc' = [pc EXCEPT ![i] = "add"]
                    /\ name' = [name EXCEPT ![i] = k]
                    /\ UNCHANGED result
            /\ UNCHANGED <<lifeVars, reqVars, teleVars, lockVars, engine>>
       ELSE Rejected(i)

\* on_download_lock on a thread, lines 233-235: the insert and the return
LockAdd(i) ==
    /\ pc[i] = "add"
    /\ global_lock' = global_lock \cup {name[i]}
    /\ active_lock' = [active_lock EXCEPT ![i] = name[i]]
    /\ result' = [result EXCEPT ![i] = "True"]
    /\ pc' = [pc EXCEPT ![i] = "idle"]
    /\ UNCHANGED <<lifeVars, reqVars, teleVars, engine, name>>

\* on_download_thumbnail, lines 237-239
OnDownloadThumbnail(i, t) ==
    /\ Active(i)
    /\ IF Accepting(i)
       THEN /\ download_thumbnail' = [download_thumbnail EXCEPT ![i] = t]
            /\ result' = [result EXCEPT ![i] = "None"]
            /\ UNCHANGED <<lifeVars, reqVars, error, finished_download_dir,
                           finished_download_filenames, progVars, startVars,
                           lockVars, engine, thrVars>>
       ELSE Rejected(i)

\* mutant: the filename is put in front of the list
OnDownloadFinishedPrepends(i, f) ==
    /\ Active(i)
    /\ Len(finished_download_filenames[i]) < MaxFiles
    /\ IF ~Accepting(i)
       THEN Rejected(i)
       ELSE IF UnlockRaises(i)
       THEN KeyError(i) /\ UNCHANGED engine
       ELSE /\ Unlock(i)
            /\ finished_download_filenames' =
                   [finished_download_filenames EXCEPT ![i] = <<f>> \o @]
            /\ result' = [result EXCEPT ![i] = "None"]
            /\ UNCHANGED <<lifeVars, reqVars, error, finished_download_dir,
                           download_thumbnail, progVars, startVars, engine,
                           thrVars>>

\* on_download_finished, lines 241-245
OnDownloadFinished(i, f) ==
    /\ Active(i)
    /\ Len(finished_download_filenames[i]) < MaxFiles
    /\ IF ~Accepting(i)
       THEN Rejected(i)
       ELSE IF UnlockRaises(i)
       THEN KeyError(i) /\ UNCHANGED engine
       ELSE /\ Unlock(i)
            /\ finished_download_filenames' =
                   [finished_download_filenames EXCEPT ![i] = Append(@, f)]
            /\ result' = [result EXCEPT ![i] = "None"]
            /\ UNCHANGED <<lifeVars, reqVars, error, finished_download_dir,
                           download_thumbnail, progVars, startVars, engine,
                           thrVars>>

----------------------------------------------------------------------------
(* Accessors of the engine, lines 168-190: the value each returns when
   called in 'download' or 'cancel' *)

\* util.languages_from_locale: the languages of the user's locale
languages_from_locale == <<"de">>

get_download_dir(i) == finished_download_dir[i]
get_prefer_mpeg(i) == prefer_mpeg[i]
get_automatic_subtitles(i) == languages_from_locale \o automatic_subtitles[i]
get_url(i) == url[i]
get_mode(i) == mode[i]
get_resolution(i) == resolution[i]

----------------------------------------------------------------------------
(* Specifications *)

\* the operations that touch the lifecycle and the locks
Core(i, requests, files) ==
    \/ \E r \in requests : SetRequest(i, r)
    \/ Download(i)
    \/ Cancel(i)
    \/ Back(i)
    \/ Shutdown(i)
    \/ \E b \in BOOLEAN : OnFinished(i, b)
    \/ \E k \in Keys : OnDownloadLock(i, k)
    \/ \E f \in files : OnDownloadFinished(i, f)

\* the callbacks that only write telemetry
Telemetry(i) ==
    \/ OnPulse(i)
    \/ \E m \in Messages : OnError(i, m)
    \/ \E p \in ProgressInputs : OnProgress(i, p)
    \/ \E a \in StartInputs : OnDownloadStart(i, a)
    \/ \E t \in Thumbnails : OnDownloadThumbnail(i, t)

\* Spec: every instance, callbacks delivered serially, the operations that
\* touch the lifecycle and the locks
Next == \E i \in Instances : Core(i, LockRequests, {"f"})

Spec == Init /\ [][Next]_vars

\* SpecFields: every operation, on one instance
NextFields == \E i \in Single : Core(i, Requests, FileNames) \/ Telemetry(i)

SpecFields == Init /\ [][NextFields]_vars

\* SpecThreads: each instance's engine calls back on its own thread, so the
\* statements of on_download_lock of different instances interleave
NextThreads ==
    \E i \in Instances :
        \/ \E r \in LockRequests : SetRequest(i, r)
        \/ Download(i)
        \/ \E k \in Keys : LockTest(i, k)
        \/ LockAdd(i)
        \/ \E f \in {"f"} : OnDownloadFinished(i, f)
        \/ \E b \in BOOLEAN : OnFinished(i, b)

SpecThreads == Init /\ [][NextThreads]_vars

\* SpecLive: one instance, the engine delivering the on_finished of every
\* download it started
NextLive == \E i \in Single : Core(i, LockRequests, {"f"})

SpecLive ==
    /\ Init
    /\ [][NextLive]_vars
    /\ \A i \in Single : WF_vars(\E b \in BOOLEAN : OnFinished(i, b))

----------------------------------------------------------------------------
(* Properties *)

\* the telemetry fields of instance i hold the values written on entering
\* 'start'
TelemetryIsReset(i) ==
    /\ error[i] = ""
    /\ download_playlist_index[i] = 0
    /\ download_playlist_count[i] = 0
    /\ download_filename[i] = ""
    /\ download_title[i] = ""
    /\ download_thumbnail[i] = ""
    /\ download_progress[i] = -1
    /\ download_bytes[i] = -1
    /\ download_bytes_total[i] = -1
    /\ download_speed[i] = -1
    /\ download_eta[i] = -1
    /\ finished_download_filenames[i] = <<>>
    /\ finished_download_dir[i] = ""

\* the request properties of instance i hold their defaults
RequestIsDefault(i) ==
    /\ mode[i] = DefaultRequest.mode
    /\ url[i] = DefaultRequest.url
    /\ resolution[i] = DefaultRequest.resolution
    /\ download_folder[i] = DefaultRequest.download_folder
    /\ prefer_mpeg[i] = DefaultRequest.prefer_mpeg
    /\ automatic_subtitles[i] = DefaultRequest.automatic_subtitles

\* instance i holds key k
Holds(i, k) == active_lock[i] = k

\* C1: with callbacks delivered serially no key is the active lock of two
\* instances at once, and an accepted on_download_lock(k) returns True exactly
\* when no instance holds k, False (changing nothing) while another holds it.
C1_MutualExclusion ==
    /\ [](\A i, j \in Instances :
            i # j /\ active_lock[i] # None => active_lock[i] # active_lock[j])
    /\ [][\A i \in Instances : \A k \in Keys :
            OnDownloadLock(i, k) /\ Accepting(i) /\ active_lock[i] = None =>
              IF \E j \in Instances : Holds(j, k)
              THEN result'[i] = "False" /\ UNCHANGED lockVars
              ELSE result'[i] = "True" /\ Holds(i, k)'
                   /\ k \in global_lock']_vars

\* one instance holds "k" and the other was refused a key
C1_Witness ==
    \E i, j \in Instances :
        /\ i # j
        /\ Holds(i, "k")
        /\ result[j] = "False"
        /\ active_lock[j] = None
        /\ Accepting(j)

\* C2: when on_finished runs (its state assertion passing) on an instance that
\* acquired a key, afterwards the key is not in the lock set and the
\* instance's active lock is None, whatever string the key is.
C2_ReleaseOnFinished ==
    [][\A i \in Instances : \A b \in BOOLEAN :
          OnFinished(i, b) /\ Accepting(i) /\ active_lock[i] # None =>
            /\ active_lock'[i] = None
            /\ active_lock[i] \notin global_lock']_vars

\* C3: with the callbacks of different instances running on different threads
\* no key is held by two instances, every held key is in the set and every
\* key of the set is held.
C3_AtomicAcquire ==
    /\ \A i, j \in Instances :
          i # j /\ active_lock[i] # None => active_lock[i] # active_lock[j]
    /\ \A i \in Instances :
          active_lock[i] # None /\ pc[i] = "idle" =>
            active_lock[i] \in global_lock

\* C4: 'download' is accepted only in Start and 'cancel' only in Downloading;
\* requested in another state the transition fails its assertion, the engine
\* is not called and the recorded state stays.
C4_RequestValidity ==
    [][\A i \in Instances :
         /\ Download(i) =>
              IF state[i] = "start" /\ prev_state[i] = "start"
              THEN /\ state'[i] = "download" /\ prev_state'[i] = "download"
                   /\ result'[i] = "None"
                   /\ engine'[i] = "running"
              ELSE /\ result'[i] = "AssertionError"
                   /\ engine'[i] = engine[i]
                   /\ prev_state'[i] = prev_state[i]
         /\ Cancel(i) =>
              IF prev_state[i] = "download"
              THEN /\ state'[i] = "cancel" /\ prev_state'[i] = "cancel"
                   /\ result'[i] = "None"
                   /\ engine'[i] =
                        IF engine[i] = "running" THEN "stopping" ELSE engine[i]
              ELSE /\ result'[i] = "AssertionError"
                   /\ engine'[i] = engine[i]
                   /\ prev_state'[i] = prev_state[i]]_vars

\* 'download' was requested in Success: the assertion failed, the engine idle
C4_Witness ==
    \E i \in Instances :
        /\ state[i] = "download"
        /\ prev_state[i] = "success"
        /\ result[i] = "AssertionError"
        /\ engine[i] = "idle"

C6_FinishedRouting ==
    [][\A i \in Instances : \A b \in BOOLEAN :
         OnFinished(i, b) /\ Accepting(i) =>
           /\ state[i] = "cancel" => state'[i] = "start"
           /\ state[i] = "download" /\ b => state'[i] = "success"
           /\ state[i] = "download" /\ ~b => state'[i] = "error"
           /\ state'[i] \notin {"download", "cancel"}
           /\ state[i] = prev_state[i] => prev_state'[i] = state'[i]]_vars

\* a download ended in Error with a message reported
C6_Witness ==
    \E i \in Instances :
        /\ state[i] = "error" /\ prev_state[i] = "error"
        /\ error[i] # ""
        /\ engine[i] = "idle"

\* C7: whenever the machine is in Start, the telemetry fields hold their reset
\* values.
C7_ResetInStart ==
    \A i \in Instances :
        state[i] = "start" /\ prev_state[i] = "start" => TelemetryIsReset(i)

\* Start entered again after a download (the engine was started)
C7_Witness ==
    \E i \in Instances :
        /\ state[i] = "start" /\ prev_state[i] = "start"
        /\ engine[i] # "idle"
        /\ url[i] # ""
        /\ TelemetryIsReset(i)

\* C8 as claimed: every transition into Start resets the request properties
\* together with the telemetry.
C8_RequestResetOnStart ==
    [][\A i \in Instances :
         prev_state[i] # "start" /\ prev_state'[i] = "start" =>
           RequestIsDefault(i)' /\ TelemetryIsReset(i)']_vars

\* C8 amended: every transition into Start resets the telemetry and leaves
\* the request properties as they were.
C8_RequestKeptOnStart ==
    [][\A i \in Instances :
         prev_state[i] # "start" /\ prev_state'[i] = "start" =>
           /\ TelemetryIsReset(i)'
           /\ UNCHANGED reqVars]_vars

\* Start entered from Cancelling by on_finished (the engine is idle and the
\* key '' taken during the download is still there) with the request kept
C8_Witness ==
    \E i \in Instances :
        /\ state[i] = "start" /\ prev_state[i] = "start"
        /\ engine[i] = "idle"
        /\ active_lock[i] = ""
        /\ mode[i] = "video" /\ url[i] = "u"

\* C9: each instance's active lock is None or a key of the lock set, so the
\* removal of _download_unlock never raises.
C9_LockOwnership ==
    \A i \in Instances :
        /\ active_lock[i] = None \/ active_lock[i] \in global_lock
        /\ ~UnlockRaises(i)
        /\ result[i] # "KeyError"

\* a key was taken, refused to the other instance, and released
C9_Witness ==
    \E i, j \in Instances :
        /\ i # j
        /\ result[j] = "False"
        /\ active_lock[i] = None
        /\ global_lock = {}

\* C10: shutdown on an instance holding a key releases it.
C10_ShutdownReleases ==
    [][\A i \in Instances :
         Shutdown(i) /\ active_lock[i] # None =>
           /\ active_lock'[i] = None
           /\ active_lock[i] \notin global_lock']_vars

\* C11: a key held by an instance leaves the lock set only in a release step
\* of that instance (its on_download_finished or on_finished); a release step
\* of an instance that holds no key leaves the lock set as it is.
C11_NoAliasing ==
    [][\A j \in Instances :
         /\ active_lock[j] # None /\ active_lock[j] \notin global_lock' =>
              \/ \E f \in FileNames : OnDownloadFinished(j, f)
              \/ \E b \in BOOLEAN : OnFinished(j, b)
         /\ active_lock[j] = None /\
              ( \/ \E f \in FileNames : OnDownloadFinished(j, f)
                \/ \E b \in BOOLEAN : OnFinished(j, b) ) =>
              UNCHANGED global_lock]_vars

\* one instance ran on_download_finished twice and on_finished and holds
\* nothing, the other holds "k"
C11_Witness ==
    \E i, j \in Instances :
        /\ i # j
        /\ active_lock[i] = None
        /\ Len(finished_download_filenames[i]) = 2
        /\ state[i] \in {"success", "error"}
        /\ Holds(j, "k")
        /\ result[j] = "True"

\* C12: a step in which an instance stops holding a key leaves the key out of
\* the lock set and held by nobody, and an accepted on_download_lock(k) of an
\* instance holding no key returns True whenever nobody holds k.
C12_Reacquire ==
    [][\A i \in Instances : \A k \in Keys :
         /\ Holds(i, k) /\ ~Holds(i, k)' =>
              /\ k \notin global_lock'
              /\ \A h \in Instances : ~Holds(h, k)'
         /\ OnDownloadLock(i, k) /\ Accepting(i) /\ active_lock[i] = None
              /\ (\A h \in Instances : ~Holds(h, k)) =>
              result'[i] = "True" /\ Holds(i, k)']_vars

\* one instance reached a terminal state after finishing a file, the other,
\* still downloading, was granted "k"
C12_Witness ==
    \E i, j \in Instances :
        /\ i # j
        /\ state[i] \in {"success", "error"} /\ prev_state[i] = state[i]
        /\ finished_download_filenames[i] # <<>>
        /\ active_lock[i] = None
        /\ Accepting(j) /\ prev_state[j] = state[j]
        /\ Holds(j, "k")
        /\ result[j] = "True"
        /\ global_lock = {"k"}

\* C13 as claimed: an on_download_lock that follows an on_download_lock of
\* the same instance in the same download fails its assertion, also when the
\* first call returned False.
C13_LockOncePerAttempt ==
    [][\A i \in Instances : \A k \in Keys :
         OnDownloadLock(i, k) /\ Accepting(i)
           /\ result[i] \in {"True", "False"} =>
           result'[i] = "AssertionError"]_vars

\* C13 amended: an on_download_lock called in Downloading or Cancelling fails
\* its assertion exactly when the instance holds a key at that moment; after
\* a call that returned False, or after on_download_finished released the
\* key, a further call is accepted.
C13_LockRejectedWhileHeld ==
    [][\A i \in Instances : \A k \in Keys :
         OnDownloadLock(i, k) /\ Accepting(i) =>
           IF active_lock[i] # None
           THEN result'[i] = "AssertionError" /\ UNCHANGED lockVars
           ELSE result'[i] \in {"True", "False"}]_vars

\* an instance holding "k" in Cancelling had a call rejected
C13_Witness ==
    \E i \in Instances :
        /\ Holds(i, "k")
        /\ state[i] = "cancel" /\ prev_state[i] = "cancel"
        /\ result[i] = "AssertionError"

\* the telemetry fields of instance i
Fields(i) ==
    <<error[i], finished_download_dir[i], finished_download_filenames[i],
      download_playlist_index[i], download_playlist_count[i],
      download_filename[i], download_title[i], download_thumbnail[i],
      download_progress[i], download_bytes[i], download_bytes_total[i],
      download_speed[i], download_eta[i]>>

\* C14: finished_download_dir is non-empty exactly when the state is
\* Downloading, Cancelling, Success or Error.
C14_DirIffActive ==
    \A i \in Instances :
        finished_download_dir[i] # "" <=>
            state[i] \in {"download", "cancel", "success", "error"}

\* C15: while an instance stays in Downloading/Cancelling every accessor keeps
\* returning the value it returned before, so the value of requestDownload.
C15_RequestFrozen ==
    [][\A i \in Instances :
         Accepting(i) /\ Accepting(i)' =>
           /\ get_url(i)' = get_url(i)
           /\ get_mode(i)' = get_mode(i)
           /\ get_resolution(i)' = get_resolution(i)
           /\ get_prefer_mpeg(i)' = get_prefer_mpeg(i)
           /\ get_automatic_subtitles(i)' = get_automatic_subtitles(i)
           /\ get_download_dir(i)' = get_download_dir(i)]_vars

\* C16: on_finished moving Downloading to Success or Error leaves the
\* telemetry fields as they are, and they stay so until Start is entered.
C16_TelemetrySurvives ==
    [][\A i \in Instances :
         /\ (\E b \in BOOLEAN : OnFinished(i, b)) /\ state[i] = "download" =>
              Fields(i)' = Fields(i)
         /\ prev_state[i] \in {"success", "error"}
              /\ prev_state'[i] # "start" =>
              Fields(i)' = Fields(i)]_vars

\* on_download_start(0,1,T), on_progress(f,0.5,500,1000,10,50),
\* on_download_finished(f), on_finished(true) were delivered
C16_Witness ==
    \E i \in Instances :
        /\ state[i] = "success" /\ prev_state[i] = "success"
        /\ finished_download_filenames[i] = <<"f">>
        /\ download_progress[i] = 50
        /\ download_bytes[i] = 500 /\ download_bytes_total[i] = 1000
        /\ download_playlist_index[i] = 0 /\ download_playlist_count[i] = 1
        /\ download_title[i] = "T"
        /\ finished_download_dir[i] # ""

\* C17 as claimed: an accepted on_download_finished appends the filename and
\* leaves the state, the active lock, the lock set and every other field.
C17_OnlyAppends ==
    [][\A i \in Instances : \A f \in FileNames :
         OnDownloadFinished(i, f) /\ Accepting(i) =>
           /\ finished_download_filenames'[i] =
                  Append(finished_download_filenames[i], f)
           /\ UNCHANGED <<lifeVars, lockVars, reqVars, error,
                          finished_download_dir, download_thumbnail, progVars,
                          startVars>>]_vars

\* C17 amended: an accepted on_download_finished appends the filename and
\* releases the key the instance holds (a key other than '' is removed from
\* the lock set and the active lock becomes None); the state and every other
\* field stay.  The list changes only by such an append in
\* Downloading/Cancelling or by being emptied on entering Start.
C17_AppendsAndReleases ==
    [][\A i \in Instances :
         /\ \A f \in FileNames :
              OnDownloadFinished(i, f) /\ Accepting(i) =>
                /\ finished_download_filenames'[i] =
                       Append(finished_download_filenames[i], f)
                /\ IF active_lock[i] \in {None, ""}
                   THEN UNCHANGED lockVars
                   ELSE /\ active_lock'[i] = None
                        /\ global_lock' = global_lock \ {active_lock[i]}
                /\ UNCHANGED <<lifeVars, reqVars, error,
                               finished_download_dir, download_thumbnail,
                               progVars, startVars>>
         /\ finished_download_filenames'[i] # finished_download_filenames[i] =>
              \/ /\ Accepting(i)
                 /\ \E f \in FileNames :
                      finished_download_filenames'[i] =
                          Append(finished_download_filenames[i], f)
              \/ /\ finished_download_filenames'[i] = <<>>
                 /\ prev_state'[i] = "start"]_vars

\* two files finished in this order, the key taken before them released
C17_Witness ==
    \E i \in Instances :
        /\ finished_download_filenames[i] = <<"g", "f">>
        /\ Accepting(i)
        /\ active_lock[i] = None
        /\ global_lock = {}
        /\ result[i] = "None"

\* C18: with on_finished delivered for every started download, an instance in
\* Downloading or Cancelling eventually is in Success, Error or Start, and
\* every key it holds is eventually absent from the lock set.
C18_Progress ==
    \A i \in Single :
        /\ Accepting(i) ~> (state[i] \in {"success", "error", "start"})
        /\ \A k \in Keys :
             (Accepting(i) /\ Holds(i, k)) ~> (k \notin global_lock)

\* C19: an instance in Start, Success or Error holds no key, and every key of
\* the lock set is the active lock of exactly one instance, which is in
\* Downloading or Cancelling.
C19_LocksOnlyWhileDownloading ==
    /\ \A i \in Instances :
          state[i] \in {"start", "success", "error"} => active_lock[i] = None
    /\ \A k \in global_lock :
          /\ Cardinality({i \in Instances : Holds(i, k)}) = 1
          /\ \A i \in Instances : Holds(i, k) => Accepting(i)

\* C20: between operations the state property equals the recorded previous
\* state, so a rejected request has left the state as it was.
C20_StateIsPrevState ==
    \A i \in Instances : state[i] = prev_state[i]

====
